---- MODULE Spec2Model ----
(***************************************************************************)
(* Model of data_processing/measurement_parser.py: KlipperMeshParser with  *)
(* parse_config_file and validate_mesh_data, and the MeshData it builds.   *)
(*                                                                         *)
(* A text is a sequence of one-character strings.  A float is a tuple      *)
(*   <<"fin", m, d>>   the decimal m / 10^d, normalised (d = 0 or m does   *)
(*                     not end in 0), so equal numbers are equal tuples    *)
(*   <<"nan", 0, 0>>, <<"inf", 1, 0>>, <<"inf", -1, 0>>                    *)
(* A failed conversion or a raised exception is a tuple <<"raise", ...>>.  *)
(***************************************************************************)
EXTENDS Integers, Sequences, FiniteSets, TLC

-----------------------------------------------------------------------------
(* Character classes of the re module, over the characters the texts use.  *)

Digit == {"0", "1", "2", "3", "4", "5", "6", "7", "8", "9"}

Letter == {"a", "b", "c", "d", "f", "g", "i", "l", "m", "n", "o", "p", "s",
           "t", "u", "x", "y"}

\* \s : whitespace; a line holds no "\n" once the content is split on it
Space == {" ", "\t", "\r", "\n"}

\* \w : letters, digits and the underscore
WordChar == Letter \cup Digit \cup {"_"}

DigitVal(c) ==
  CASE c = "0" -> 0 [] c = "1" -> 1 [] c = "2" -> 2 [] c = "3" -> 3
    [] c = "4" -> 4 [] c = "5" -> 5 [] c = "6" -> 6 [] c = "7" -> 7
    [] c = "8" -> 8 [] c = "9" -> 9

-----------------------------------------------------------------------------
(* str methods used by the parser.                                         *)

\* index of the first occurrence of character c in s at or after i, else 0
RECURSIVE IndexFrom(_, _, _)
IndexFrom(s, c, i) ==
  IF i > Len(s) THEN 0
  ELSE IF s[i] = c THEN i
  ELSE IndexFrom(s, c, i + 1)

\* str.split(sep) for a one-character separator
RECURSIVE split(_, _)
split(s, sep) ==
  LET i == IndexFrom(s, sep, 1)
  IN IF i = 0 THEN <<s>>
     ELSE <<SubSeq(s, 1, i - 1)>> \o split(SubSeq(s, i + 1, Len(s)), sep)

\* whether text t occurs in s at index i
StartsAt(s, i, t) ==
  /\ i + Len(t) - 1 <= Len(s)
  /\ s[i] = t[1]
  /\ \A k \in 2..Len(t) : s[i + k - 1] = t[k]

\* str.replace(old, new): every non-overlapping occurrence, left to right
RECURSIVE replace(_, _, _)
replace(s, old, new) ==
  IF s = <<>> THEN <<>>
  ELSE IF StartsAt(s, 1, old)
       THEN new \o replace(SubSeq(s, Len(old) + 1, Len(s)), old, new)
       ELSE <<s[1]>> \o replace(SubSeq(s, 2, Len(s)), old, new)

\* first index at or after i whose character is outside class (Len(s)+1 if none)
RECURSIVE SkipClass(_, _, _)
SkipClass(s, i, class) ==
  IF i > Len(s) THEN i
  ELSE IF s[i] \in class THEN SkipClass(s, i + 1, class)
  ELSE i

\* last index at or before i whose character is outside class (0 if none)
RECURSIVE SkipClassBack(_, _, _)
SkipClassBack(s, i, class) ==
  IF i < 1 THEN 0
  ELSE IF s[i] \in class THEN SkipClassBack(s, i - 1, class)
  ELSE i

\* str.strip(): leading and trailing whitespace removed
strip(s) ==
  LET a == SkipClass(s, 1, Space)
      b == SkipClassBack(s, Len(s), Space)
  IN IF a > b THEN <<>> ELSE SubSeq(s, a, b)

-----------------------------------------------------------------------------
(* float() and int() of a text.                                            *)

\* a raised exception, by class; every other value of the model is a tuple or
\* record whose first component is a different tag
RaiseValueError == <<"raise", "ValueError">>

IsRaise(v) == v[1] = "raise"

Ok(v) == <<"ok", v>>

NaN == <<"nan", 0, 0>>

Inf(sign) == <<"inf", sign, 0>>

RECURSIVE Pow10(_)
Pow10(d) == IF d = 0 THEN 1 ELSE 10 * Pow10(d - 1)

\* the decimal m / 10^d with trailing zeros of the fraction removed
RECURSIVE Fin(_, _)
Fin(m, d) ==
  IF d > 0 /\ m % 10 = 0 THEN Fin(m \div 10, d - 1) ELSE <<"fin", m, d>>

\* a digit group of a numeric literal: digits, single underscores between them
IsDigitGroup(s) ==
  /\ s # <<>>
  /\ \A k \in 1..Len(s) : s[k] \in Digit \cup {"_"}
  /\ s[1] # "_" /\ s[Len(s)] # "_"
  /\ \A k \in 1..(Len(s) - 1) : ~(s[k] = "_" /\ s[k + 1] = "_")

\* value of a digit group read to the left of index i, underscores skipped
RECURSIVE DigitsValue(_, _)
DigitsValue(s, i) ==
  IF i < 1 THEN 0
  ELSE IF s[i] = "_" THEN DigitsValue(s, i - 1)
  ELSE 10 * DigitsValue(s, i - 1) + DigitVal(s[i])

\* number of digits of a digit group
DigitCount(s) == Cardinality({k \in 1..Len(s) : s[k] \in Digit})

\* the unsigned part of a float literal: inf, infinity, nan, or a decimal
\* (digits, digits., .digits, digits.digits); the texts hold no exponent letter
UnsignedFloat(s, sign) ==
  LET Decimal(ip, fp) ==
        IF /\ ip = <<>> => (fp # <<>>)
           /\ ip # <<>> => IsDigitGroup(ip)
           /\ fp # <<>> => IsDigitGroup(fp)
           /\ ~(ip = <<>> /\ fp = <<>>)
        THEN Fin(sign * (DigitsValue(ip, Len(ip)) * Pow10(DigitCount(fp))
                         + DigitsValue(fp, Len(fp))),
                 DigitCount(fp))
        ELSE RaiseValueError
      AroundDot(dot) ==
        Decimal(IF dot = 0 THEN s ELSE SubSeq(s, 1, dot - 1),
                IF dot = 0 THEN <<>> ELSE SubSeq(s, dot + 1, Len(s)))
  IN IF s = <<"n", "a", "n">> THEN NaN
     ELSE IF s = <<"i", "n", "f">> \/ s = <<"i", "n", "f", "i", "n", "i", "t", "y">>
          THEN Inf(sign)
     ELSE AroundDot(IndexFrom(s, ".", 1))

\* float(text): surrounding whitespace is ignored, one optional sign
float(text) ==
  LET Literal(s) ==
        IF s = <<>> THEN RaiseValueError
        ELSE UnsignedFloat(IF s[1] \in {"-", "+"} THEN Tail(s) ELSE s,
                           IF s[1] = "-" THEN -1 ELSE 1)
  IN Literal(strip(text))

\* int(text): surrounding whitespace is ignored, one optional sign, digits only
int(text) ==
  LET Digits(u, sign) ==
        IF IsDigitGroup(u) THEN <<"int", sign * DigitsValue(u, Len(u))>>
        ELSE RaiseValueError
      Literal(s) ==
        Digits(IF s # <<>> /\ s[1] \in {"-", "+"} THEN Tail(s) ELSE s,
               IF s # <<>> /\ s[1] = "-" THEN -1 ELSE 1)
  IN Literal(strip(text))

-----------------------------------------------------------------------------
(* The two compiled patterns of __init__, matched the way re.search does:  *)
(* leftmost start, greedy quantifiers, backtracking where it can succeed.  *)

\* the literal #\*# of both patterns
Marker == <<"#", "*", "#">>

\* -?\d+\.\d+ at index i: the index just past the number, 0 if it does not match
NumberEnd(s, i) ==
  LET Fraction(a, b, c) ==
        IF b > a /\ b <= Len(s) /\ s[b] = "." /\ c > b + 1 THEN c ELSE 0
      Dot(a, b) == Fraction(a, b, SkipClass(s, b + 1, Digit))
      Whole(a) == Dot(a, SkipClass(s, a, Digit))
  IN Whole(IF i <= Len(s) /\ s[i] = "-" THEN i + 1 ELSE i)

\* the number list matched with no \s* after the comma
RECURSIVE NumbersEndNoSpace(_, _)
NumbersEndNoSpace(s, i) ==
  LET More(e, r) == IF r = 0 THEN e ELSE r
      After(e) ==
        IF e = 0 THEN 0
        ELSE IF e <= Len(s) /\ s[e] = ","
             THEN More(e, NumbersEndNoSpace(s, e + 1))
             ELSE e
  IN After(NumberEnd(s, i))

\* (-?\d+\.\d+,\s*)*-?\d+\.\d+ at index i: the index just past the last number
\* the greedy match keeps (a trailing comma with no number after it is given back)
RECURSIVE NumbersEnd(_, _)
NumbersEnd(s, i) ==
  LET More(e, r) == IF r = 0 THEN e ELSE r
      After(e) ==
        IF e = 0 THEN 0
        ELSE IF e <= Len(s) /\ s[e] = ","
             THEN More(e, NumbersEnd(s, SkipClass(s, e + 1, Space)))
             ELSE e
  IN After(NumberEnd(s, i))

\* point_pattern matched at index i: the index just past the match, 0 if none
PointMatchEnd(s, i) ==
  LET Numbers(j) == IF j > i + 3 THEN NumbersEnd(s, j) ELSE 0
  IN IF ~StartsAt(s, i, Marker) THEN 0
     ELSE Numbers(SkipClass(s, i + 3, Space))

NoMatch == <<"NoMatch">>

\* re.search of point_pattern from index i on: the leftmost start that matches
RECURSIVE PointSearch(_, _)
PointSearch(line, i) ==
  LET Try(e) == IF e # 0 THEN <<"Match", SubSeq(line, i, e - 1)>>
                ELSE PointSearch(line, i + 1)
  IN IF i > Len(line) THEN NoMatch
     ELSE Try(PointMatchEnd(line, i))

\* point_pattern.search(line): <<"Match", match.group(0)>>, or NoMatch
point_pattern(line) == PointSearch(line, 1)

\* param_pattern matched at index i: <<key, value>>, or NoMatch.  After "=" the
\* \s+ takes every space; when nothing is left for (.+) it gives one space back.
ParamMatchAt(s, i) ==
  LET Value(j, k, l, m) ==
        IF /\ StartsAt(s, i, Marker)
           /\ j > i + 3
           /\ k > j /\ l > k
           /\ l <= Len(s) /\ s[l] = "="
           /\ m > l + 1
        THEN IF m <= Len(s)
             THEN <<"Match", SubSeq(s, j, k - 1), SubSeq(s, m, Len(s))>>
             ELSE IF m > l + 2
                  THEN <<"Match", SubSeq(s, j, k - 1), <<s[Len(s)]>> >>
             ELSE NoMatch
        ELSE NoMatch
      Equals(j, k, l) == Value(j, k, l, SkipClass(s, l + 1, Space))
      Key(j, k) == Equals(j, k, SkipClass(s, k, Space))
      Word(j) == Key(j, SkipClass(s, j, WordChar))
  IN Word(SkipClass(s, i + 3, Space))

\* re.search of param_pattern from index i on: the leftmost start that matches
RECURSIVE ParamSearch(_, _)
ParamSearch(line, i) ==
  LET Try(m) == IF m # NoMatch THEN m ELSE ParamSearch(line, i + 1)
  IN IF i > Len(line) THEN NoMatch
     ELSE Try(ParamMatchAt(line, i))

\* param_pattern.search(line): <<"Match", key, value>> (match.groups()), or NoMatch
param_pattern(line) == ParamSearch(line, 1)

-----------------------------------------------------------------------------
(* State.                                                                  *)

VARIABLES
  content,       \* the text under test, passed to parse_config_file
  gen,           \* how the caller composed content (what it wrote where)
  numpy_ragged,  \* what the installed numpy does with rows of differing
                 \* lengths: "object" (before 1.24) or "raise" (1.24 and later)
  arg,           \* argument of the latest parse_config_file call
  phase,         \* how far the caller is: no call yet ("none"), content
                 \* parsed ("first") and at once parsed again ("repeat"),
                 \* or the other file parsed after it ("between") and
                 \* then content once more ("again")
  points_data,   \* local points_data of the latest call, at its return
  params,        \* local params of the latest call, at its return
  result,        \* what the latest parse_config_file call returned
  first_result,  \* what the first call on content returned
  mesh,          \* argument of the latest validate_mesh_data call
  valid          \* what the latest validate_mesh_data call returned

vars == <<content, gen, numpy_ragged, arg, phase, points_data, params, result,
          first_result, mesh, valid>>

-----------------------------------------------------------------------------
(* numpy.                                                                  *)

\* an array made with the width of the first row, whatever the other rows hold
np_array_first_row(rows) ==
  IF rows = <<>>
  THEN Ok([shape |-> <<0>>, dtype |-> "float64", data |-> <<>>])
  ELSE Ok([shape |-> <<Len(rows), Len(rows[1])>>, dtype |-> "float64",
           data |-> rows])

\* np.array(list of lists of floats): a float array of shape (0,) for no rows,
\* of shape (N, M) for N rows of M values; rows of differing lengths give a
\* 1-d object array of N lists or a ValueError, by numpy version
np_array(rows) ==
  IF rows = <<>>
  THEN Ok([shape |-> <<0>>, dtype |-> "float64", data |-> <<>>])
  ELSE IF \A i \in 1..Len(rows) : Len(rows[i]) = Len(rows[1])
       THEN Ok([shape |-> <<Len(rows), Len(rows[1])>>, dtype |-> "float64",
                data |-> rows])
  ELSE IF numpy_ragged = "object"
       THEN Ok([shape |-> <<Len(rows)>>, dtype |-> "object", data |-> rows])
  ELSE RaiseValueError

\* the elements of a 2-d array
Elements(matrix) ==
  {matrix.data[i][j] : i \in 1..matrix.shape[1], j \in 1..matrix.shape[2]}

\* the threshold of the range check
RangeLimit == 10

\* the comparison with >= in place of >
abs_ge(v, limit) ==
  CASE v[1] = "fin" -> (IF v[2] < 0 THEN -v[2] ELSE v[2]) >= limit * Pow10(v[3])
    [] v[1] = "inf" -> TRUE
    [] v[1] = "nan" -> FALSE

\* np.abs(v) > limit for one element: never for nan, always for an infinity
abs_gt(v, limit) ==
  CASE v[1] = "fin" -> (IF v[2] < 0 THEN -v[2] ELSE v[2]) > limit * Pow10(v[3])
    [] v[1] = "inf" -> TRUE
    [] v[1] = "nan" -> FALSE

\* a test that finds no nan
isnan_never(v) == FALSE

isnan(v) == v[1] = "nan"

isinf(v) == v[1] = "inf"

-----------------------------------------------------------------------------
(* KlipperMeshParser.parse_config_file                                     *)

None == [kind |-> "None"]

MeshData(matrix, x_count, y_count, min_x, max_x, min_y, max_y) ==
  [kind |-> "MeshData", matrix |-> matrix, x_count |-> x_count,
   y_count |-> y_count, min_x |-> min_x, max_x |-> max_x,
   min_y |-> min_y, max_y |-> max_y]

\* an exception that left the call uncaught
Fault(exc) == [kind |-> "Fault", exc |-> exc]

key_x_count == <<"x", "_", "c", "o", "u", "n", "t">>
key_y_count == <<"y", "_", "c", "o", "u", "n", "t">>
key_min_x == <<"m", "i", "n", "_", "x">>
key_max_x == <<"m", "a", "x", "_", "x">>
key_min_y == <<"m", "i", "n", "_", "y">>
key_max_y == <<"m", "a", "x", "_", "y">>

required_params ==
  <<key_x_count, key_y_count, key_min_x, key_max_x, key_min_y, key_max_y>>

\* points_data = []
NewPointsData == <<>>

\* the dict the previous call left, as a dict kept on the instance would be
StaleParams == params

\* params = {}
NewParams == <<>>

\* the row put in front of the list
insert_front(list, points) == <<points>> \o list

\* points_data.append(points)
append(list, points) == Append(list, points)

\* dict.setdefault(key, value): the first value of a key is kept
setdefault(dict, key, value) ==
  [k \in DOMAIN dict \cup {key} |-> IF k \in DOMAIN dict THEN dict[k] ELSE value]

\* params[key] = value
setitem(dict, key, value) ==
  [k \in DOMAIN dict \cup {key} |-> IF k = key THEN value ELSE dict[k]]

\* [float(p.strip()) for p in match.group(0).replace('#*#', '').split(',')]
\* Ok(the list), or the first exception a float() raises
RECURSIVE FloatList(_)
FloatList(pieces) ==
  LET Cons(v, rest) == IF IsRaise(v) THEN v
                       ELSE IF IsRaise(rest) THEN rest
                       ELSE Ok(<<v>> \o rest[2])
  IN IF pieces = <<>> THEN Ok(<<>>)
     ELSE Cons(float(strip(Head(pieces))), FloatList(Tail(pieces)))

Points(group0) == FloatList(split(replace(group0, Marker, <<>>), ","))

\* the first loop: Ok(points_data), or the exception that ended it
RECURSIVE ScanPoints(_, _)
ScanPoints(lines, acc) ==
  LET Row(points) ==
        IF IsRaise(points) THEN points
        ELSE ScanPoints(Tail(lines), append(acc, points[2]))
      Line(match) ==
        IF match = NoMatch THEN ScanPoints(Tail(lines), acc)
        ELSE Row(Points(match[2]))
  IN IF lines = <<>> THEN Ok(acc)
     ELSE Line(point_pattern(Head(lines)))

\* the second loop: params
RECURSIVE ScanParams(_, _)
ScanParams(lines, acc) ==
  LET Line(match) ==
        IF match = NoMatch THEN ScanParams(Tail(lines), acc)
        ELSE ScanParams(Tail(lines), setitem(acc, match[2], match[3]))
  IN IF lines = <<>> THEN acc
     ELSE Line(param_pattern(Head(lines)))

\* all(param in params for param in required_params)
HasRequired(dict) ==
  \A k \in 1..Len(required_params) : required_params[k] \in DOMAIN dict

RaiseKeyError == <<"raise", "KeyError">>

\* int(params[key]): the lookup of an absent key raises KeyError
int_item(dict, key) ==
  IF key \in DOMAIN dict THEN int(dict[key]) ELSE RaiseKeyError

\* float(params[key])
float_item(dict, key) ==
  IF key \in DOMAIN dict THEN float(dict[key]) ELSE RaiseKeyError

\* the return statement: the seven arguments are evaluated in order, the
\* first lookup or conversion that raises ends the call
Construct(height_matrix, dict) ==
  LET Arguments(x_count, y_count, min_x, max_x, min_y, max_y) ==
        IF IsRaise(x_count) THEN x_count
        ELSE IF IsRaise(y_count) THEN y_count
        ELSE IF IsRaise(min_x) THEN min_x
        ELSE IF IsRaise(max_x) THEN max_x
        ELSE IF IsRaise(min_y) THEN min_y
        ELSE IF IsRaise(max_y) THEN max_y
        ELSE Ok(MeshData(height_matrix, x_count[2], y_count[2],
                         min_x, max_x, min_y, max_y))
  IN Arguments(int_item(dict, key_x_count), int_item(dict, key_y_count),
               float_item(dict, key_min_x), float_item(dict, key_max_x),
               float_item(dict, key_min_y), float_item(dict, key_max_y))

\* the body of the try block: the locals at its end, and in ret Ok(the
\* MeshData it returns) or the exception it raises
TryBody(text) ==
  LET Return(height_matrix, dict) ==
        IF IsRaise(height_matrix) THEN height_matrix
        ELSE Construct(height_matrix[2], dict)
      AfterLoops(scanned, dict) ==
        IF IsRaise(scanned)
        THEN [points_data |-> NewPointsData, params |-> NewParams,
              ret |-> scanned]
        ELSE [points_data |-> scanned[2], params |-> dict,
              ret |-> IF ~HasRequired(dict) THEN RaiseValueError
                      ELSE Return(np_array(scanned[2]), dict)]
      Loops(lines) ==
        AfterLoops(ScanPoints(lines, NewPointsData),
                   ScanParams(lines, NewParams))
  IN Loops(split(text, "\n"))

\* except KeyError
CaughtKeyError(exc) == exc[2] = "KeyError"

\* except Exception: every exception class the body raises derives from it
Caught(exc) ==
  exc[2] \in {"ValueError", "KeyError", "TypeError", "AttributeError",
              "IndexError", "OverflowError"}

\* the whole call: the frame of TryBody with ret the value the caller gets
parse_config_file(text) ==
  [TryBody(text) EXCEPT !.ret = IF ~IsRaise(@) THEN @[2]
                                ELSE IF Caught(@) THEN None
                                ELSE Fault(@)]

-----------------------------------------------------------------------------
(* KlipperMeshParser.validate_mesh_data                                    *)

\* the number of dimensions and the row count compared, the column count not
RowsMismatch(mesh_data) ==
  \/ Len(mesh_data.matrix.shape) # 2
  \/ mesh_data.matrix.shape[1] # mesh_data.x_count

\* mesh_data.matrix.shape != (mesh_data.x_count, mesh_data.y_count)
ShapeMismatch(mesh_data) ==
  mesh_data.matrix.shape # <<mesh_data.x_count, mesh_data.y_count>>

\* np.any(np.abs(mesh_data.matrix) > 10)
RangeViolation(mesh_data) ==
  \E v \in Elements(mesh_data.matrix) : abs_gt(v, RangeLimit)

\* np.any(np.isnan(mesh_data.matrix)) or np.any(np.isinf(mesh_data.matrix))
NonFinite(mesh_data) ==
  \/ \E v \in Elements(mesh_data.matrix) : isnan(v)
  \/ \E v \in Elements(mesh_data.matrix) : isinf(v)

validate_mesh_data(mesh_data) ==
  IF ShapeMismatch(mesh_data) THEN FALSE
  ELSE IF RangeViolation(mesh_data) THEN FALSE
  ELSE IF NonFinite(mesh_data) THEN FALSE
  ELSE TRUE

-----------------------------------------------------------------------------
(* The texts the caller passes: files composed of a header of parameter    *)
(* lines, numeric-row lines and stray lines.                               *)

\* largest number of numeric-row lines of a generated grid, and of rows of a
\* MeshData handed to validate_mesh_data
MaxRows == 2

\* largest number of values on a numeric-row line, and of columns of a MeshData
MaxCols == 2

\* largest number of stray lines put around a header
MaxStray == 2

\* number texts written on numeric-row lines, each with the float it denotes
TokenTable ==
  <<<<<<"0", ".", "0", "1", "2">>, <<"fin", 12, 3>> >>,
    <<<<"-", "0", ".", "0", "3", "4">>, <<"fin", -34, 3>> >>,
    <<<<"1", ".", "0", "0", "1">>, <<"fin", 1001, 3>> >>,
    <<<<"0", ".", "9", "9", "8">>, <<"fin", 998, 3>> >>,
    <<<<"1", "0", ".", "0">>, <<"fin", 10, 0>> >>,
    <<<<"-", "1", "0", ".", "0">>, <<"fin", -10, 0>> >>,
    <<<<"1", "0", ".", "0", "0", "0", "1">>, <<"fin", 100001, 4>> >>>>

FILLS == {"level", "boundary", "over"}

\* which number the caller writes at row i, column j under a fill: "level"
\* cycles through four distinct small values, "boundary" alternates 10.0 and
\* -10.0, "over" is "level" with 10.0001 in the first cell
FillToken(fill, i, j) ==
  LET p == (i - 1) * MaxCols + j
  IN CASE fill = "level" -> ((p - 1) % 4) + 1
       [] fill = "boundary" -> 5 + (p % 2)
       [] fill = "over" -> IF p = 1 THEN 7 ELSE ((p - 1) % 4) + 1

\* decimal text of a natural number
RECURSIVE DecText(_)
DecText(n) ==
  LET d == CHOOSE c \in Digit : DigitVal(c) = n % 10
  IN IF n < 10 THEN <<d>> ELSE DecText(n \div 10) \o <<d>>

RECURSIVE JoinWith(_, _)
JoinWith(texts, sep) ==
  IF texts = <<>> THEN <<>>
  ELSE IF Len(texts) = 1 THEN texts[1]
  ELSE texts[1] \o sep \o JoinWith(Tail(texts), sep)

ParamLine(key, value) == Marker \o <<" ">> \o key \o <<" ", "=", " ">> \o value

RowLine(texts) == Marker \o <<" ">> \o JoinWith(texts, <<",", " ">>)

\* the numeric-row lines of a grid with row i of lens[i] values
GridLines(lens, fill) ==
  [i \in 1..Len(lens) |->
     RowLine([j \in 1..lens[i] |-> TokenTable[FillToken(fill, i, j)][1]])]

\* the floats those lines denote
GridValues(lens, fill) ==
  [i \in 1..Len(lens) |->
     [j \in 1..lens[i] |-> TokenTable[FillToken(fill, i, j)][2]]]

\* the bounds every generated header declares: min_x, max_x, min_y, max_y
BoundTexts == <<<<"0">>, <<"2", "0", "0">>, <<"0", ".", "5">>, <<"2", "0", "0">>>>

BoundValues == <<<<"fin", 0, 0>>, <<"fin", 200, 0>>, <<"fin", 5, 1>>, <<"fin", 200, 0>>>>

\* the six header lines declaring x_count = xc and y_count = yc
Header(xc, yc) ==
  <<ParamLine(key_x_count, DecText(xc)), ParamLine(key_y_count, DecText(yc)),
    ParamLine(key_min_x, BoundTexts[1]), ParamLine(key_max_x, BoundTexts[2]),
    ParamLine(key_min_y, BoundTexts[3]), ParamLine(key_max_y, BoundTexts[4])>>

\* s without the entries whose index is in drop
RECURSIVE Without(_, _, _)
Without(s, drop, i) ==
  IF i > Len(s) THEN <<>>
  ELSE (IF i \in drop THEN <<>> ELSE <<s[i]>>) \o Without(s, drop, i + 1)

\* values a header edit writes for a key
ValueTexts ==
  {<<"3">>,
   <<"2", " ">>,
   <<"2", ".", "5">>,
   <<"n", "a", "n">>,
   <<"-", "i", "n", "f">>,
   <<"a", "b", "c">>,
   <<"+", "2">>}

\* stray lines, each with the rows its numeric-row match holds (none or one):
\* what re.search and float give for that line
StrayTable ==
  <<<<<<"#", "*", "#", " ", "p", "o", "i", "n", "t", "s", " ", "=">>,
      <<>>>>,
    <<<<"#", "*", "#", " ", "\t", " ", "0", ".", "5", ",", " ", "-", "1", ".", "5">>,
      <<<<<<"fin", 5, 1>>, <<"fin", -15, 1>>>>>>>>,
    <<<<"#", "*", "#", " ", "0", ".", "5", ",", " ", "1">>,
      <<<<<<"fin", 5, 1>>>>>>>>,
    <<<<"x", " ", "=", " ", "#", "*", "#", " ", "0", ".", "2", "5">>,
      <<<<<<"fin", 25, 2>>>>>>>>,
    <<<<"#", "*", "#", " ", "x", "y", " ", "=", " ", "#", "*", "#", " ", "1", ".", "5">>,
      <<<<<<"fin", 15, 1>>>>>>>>,
    <<<<"#", "*", "#", "0", ".", "5">>,
      <<>>>>,
    <<<<"#", "*", "#", " ", "-", "0", ".", "5", ",", "-", "1", ".", "5", ",">>,
      <<<<<<"fin", -5, 1>>, <<"fin", -15, 1>>>>>>>>,
    <<<<"#", "*", "#", " ", "a", "l", "g", "o", " ", "=", " ", "0", ".", "2">>,
      <<>>>>>>

Profiles(n) == [1..n -> 1..MaxCols]

\* grids: every row-length profile and fill; x_count declared as the number
\* of rows or one more, y_count as any row length; the header after or
\* around the rows
GridGens ==
  UNION {{[family |-> "grid", lens |-> lens, fill |-> fill, xc |-> xc,
           yc |-> yc, layout |-> layout] :
            fill \in FILLS, xc \in {Len(lens), Len(lens) + 1},
            yc \in 1..MaxCols, layout \in {"rows_first", "around"}} :
         lens \in UNION {Profiles(n) : n \in 0..MaxRows}}

\* the rows of the files whose header is edited: the 2 x 2 example
ExampleLens == <<2, 2>>

\* header edits: some of the six keys dropped, over the example's rows, rows
\* of differing lengths or no row; or, in the example file, one value
\* replaced, or one more line for a key before or after the header
EditGens ==
  {[family |-> "edit", edit |-> "drop", lens |-> lens, drop |-> d, key |-> 0,
    value |-> <<>>] :
     d \in (SUBSET (1..6)) \ {{}}, lens \in {ExampleLens, <<1, 2>>, <<>>}}
  \cup
  {[family |-> "edit", edit |-> e, lens |-> ExampleLens, drop |-> {},
    key |-> k, value |-> v] :
     e \in {"replace", "before", "after"}, k \in 1..6, v \in ValueTexts}

\* stray lines around the header of a file with no other row
StrayGens ==
  {[family |-> "stray", lines |-> ls] :
     ls \in UNION {[1..n -> 1..Len(StrayTable)] : n \in 1..MaxStray}}

ComposeGrid(g) ==
  LET rows == GridLines(g.lens, g.fill)
      head == Header(g.xc, g.yc)
  IN CASE g.layout = "rows_first" -> rows \o head
       [] g.layout = "around" -> SubSeq(head, 1, 3) \o rows \o SubSeq(head, 4, 6)

ComposeEdit(g) ==
  LET rows == GridLines(g.lens, "level")
      head == Header(Len(ExampleLens), ExampleLens[1])
      line == IF g.key = 0 THEN <<>>
              ELSE ParamLine(required_params[g.key], g.value)
  IN CASE g.edit = "drop" -> rows \o Without(head, g.drop, 1)
       [] g.edit = "replace" -> rows \o [head EXCEPT ![g.key] = line]
       [] g.edit = "before" -> <<line>> \o head \o rows
       [] g.edit = "after" -> head \o rows \o <<line>>

ComposeStray(g) ==
  LET stray == [i \in 1..Len(g.lines) |-> StrayTable[g.lines[i]][1]]
  IN <<stray[1]>> \o Header(1, 1) \o Tail(stray)

\* the lines of the file a generator record describes
Compose(g) ==
  CASE g.family = "grid" -> ComposeGrid(g)
    [] g.family = "edit" -> ComposeEdit(g)
    [] g.family = "stray" -> ComposeStray(g)

\* the text of a file: its lines joined by newlines
FileText(lines) == JoinWith(lines, <<"\n">>)

\* a second, complete file parsed between calls on content
other_content ==
  FileText(<<RowLine(<<TokenTable[5][1]>>)>> \o Header(1, 1))

-----------------------------------------------------------------------------
(* Calls.                                                                  *)

NotCalled == [kind |-> "NotCalled"]

NoMesh == [kind |-> "NoMesh"]

Bool(b) == IF b THEN "True" ELSE "False"

Init ==
  /\ gen \in GridGens \cup EditGens \cup StrayGens
  /\ content = FileText(Compose(gen))
  /\ numpy_ragged \in {"object", "raise"}
  /\ arg = "none"
  /\ phase = "none"
  /\ points_data = <<>>
  /\ params = <<>>
  /\ result = NotCalled
  /\ first_result = NotCalled
  /\ mesh = NoMesh
  /\ valid = "unset"

\* mesh = parser.parse_config_file(text), text the content or the other file
ParseCall(name) ==
  \E frame \in {parse_config_file(IF name = "content" THEN content
                                   ELSE other_content)} :
     /\ arg' = name
     /\ points_data' = frame.points_data
     /\ params' = frame.params
     /\ result' = frame.ret
     /\ first_result' = IF name = "content" /\ first_result = NotCalled
                        THEN frame.ret ELSE first_result
     /\ UNCHANGED <<content, gen, numpy_ragged, mesh, valid>>

\* parser.validate_mesh_data(m)
ValidateCall(m) ==
  /\ mesh' = m
  /\ valid' = Bool(validate_mesh_data(m))
  /\ UNCHANGED <<content, gen, numpy_ragged, arg, phase, points_data, params,
                 result, first_result>>

\* a call on the content under test: the first, or one more, at once or after
\* the call on the other file
ParseContent ==
  /\ phase \in {"none", "first", "between"}
  /\ phase' = CASE phase = "none" -> "first"
                [] phase = "first" -> "repeat"
                [] phase = "between" -> "again"
  /\ ParseCall("content")

\* a call on the other file, after the first call on the content
ParseOther ==
  /\ phase = "first"
  /\ phase' = "between"
  /\ ParseCall("other")

\* the caller validates what the first call on the content returned, before
\* any further call
ValidateResult ==
  /\ phase = "first"
  /\ result.kind = "MeshData"
  /\ mesh = NoMesh
  /\ ValidateCall(result)

Next == ParseContent \/ ParseOther \/ ValidateResult

Spec == Init /\ [][Next]_vars

-----------------------------------------------------------------------------
(* MeshData the caller builds itself and hands to validate_mesh_data.      *)

\* values by name
GivenValue(name) ==
  CASE name = "small" -> <<"fin", 12, 3>>
    [] name = "ten" -> <<"fin", 10, 0>>
    [] name = "minus_ten" -> <<"fin", -10, 0>>
    [] name = "over" -> <<"fin", 100001, 4>>
    [] name = "minus_over" -> <<"fin", -100001, 4>>
    [] name = "nan" -> NaN
    [] name = "pinf" -> Inf(1)
    [] name = "ninf" -> Inf(-1)

Backgrounds == {"small"}

Specials == {"ten", "minus_ten", "over", "minus_over", "nan", "pinf", "ninf"}

\* the name of the value in cell c (cells numbered row by row): the
\* background, but for up to two cells p <= q (0: no such cell)
NameAt(g, c) ==
  IF c = g.q /\ g.q > 0 THEN g.vq
  ELSE IF c = g.p /\ g.p > 0 THEN g.vp
  ELSE g.bg

\* the special cells of an n x m matrix: none, one, or two
SpecialCells(n, m) ==
  {[p |-> 0, q |-> 0, vp |-> "none", vq |-> "none"]}
  \cup {[p |-> 0, q |-> q, vp |-> "none", vq |-> vq] :
          q \in 1..(n * m), vq \in Specials}
  \cup UNION {{[p |-> p, q |-> q, vp |-> vp, vq |-> vq] :
                 p \in 1..(q - 1), vp \in Specials, vq \in Specials} :
              q \in 1..(n * m)}

\* n x m float matrices with up to two special cells; x_count declared as n or
\* one more, y_count within one of m
GivenGens ==
  UNION {{[family |-> "given", n |-> n, m |-> m, bg |-> bg, p |-> c.p,
           q |-> c.q, vp |-> c.vp, vq |-> c.vq, xc |-> xc, yc |-> yc] :
            bg \in Backgrounds, c \in SpecialCells(n, m),
            xc \in {n, n + 1}, yc \in {m - 1, m, m + 1}} :
         <<n, m>> \in (1..MaxRows) \X (1..MaxCols)}

\* 1-d arrays: the empty float array, and object arrays of rows of differing
\* lengths (np.array(rows, dtype=object)), the first value special
Given1dGens ==
  UNION {{[family |-> "given1d", lens |-> lens, bg |-> bg, first |-> v,
           xc |-> xc, yc |-> yc] :
            bg \in Backgrounds, v \in Specials \cup Backgrounds,
            xc \in {Len(lens), Len(lens) + 1}, yc \in 1..MaxCols} :
         lens \in {l \in UNION {Profiles(k) : k \in 0..MaxRows} :
                     l = <<>> \/ \E i \in 1..Len(l) : l[i] # l[1]}}

GivenMatrix(g) ==
  IF g.family = "given"
  THEN [shape |-> <<g.n, g.m>>, dtype |-> "float64",
        data |-> [i \in 1..g.n |->
                    [j \in 1..g.m |-> GivenValue(NameAt(g, (i - 1) * g.m + j))]]]
  ELSE IF g.lens = <<>>
  THEN [shape |-> <<0>>, dtype |-> "float64", data |-> <<>>]
  ELSE [shape |-> <<Len(g.lens)>>, dtype |-> "object",
        data |-> [i \in 1..Len(g.lens) |->
                    [j \in 1..g.lens[i] |->
                       GivenValue(IF i = 1 /\ j = 1 THEN g.first ELSE g.bg)]]]

GivenMesh(g) ==
  MeshData(GivenMatrix(g), g.xc, g.yc, BoundValues[1], BoundValues[2],
           BoundValues[3], BoundValues[4])

\* the names of the values a given matrix holds
Names(g) ==
  IF g.family = "given" THEN {NameAt(g, c) : c \in 1..(g.n * g.m)}
  ELSE IF g.lens = <<>> THEN {}
  ELSE {g.first} \cup (IF g.lens = <<1>> THEN {} ELSE {g.bg})

VInit ==
  /\ gen \in GivenGens \cup Given1dGens
  /\ content = <<>>
  /\ numpy_ragged \in {"object", "raise"}
  /\ arg = "none"
  /\ phase = "none"
  /\ points_data = <<>>
  /\ params = <<>>
  /\ result = NotCalled
  /\ first_result = NotCalled
  /\ mesh = GivenMesh(gen)
  /\ valid = "unset"

\* the caller validates the MeshData it built
ValidateGiven == valid = "unset" /\ ValidateCall(mesh)

VNext == ValidateGiven

SpecValidate == VInit /\ [][VNext]_vars

-----------------------------------------------------------------------------
(* What the caller wrote, read off the generator record: the expectations   *)
(* the claims are checked against.                                         *)

\* a grid of N >= 1 rows of M >= 1 values each, declared as x_count = N, y_count = M
WellFormedGrid(g) ==
  /\ g.family = "grid"
  /\ Len(g.lens) >= 1
  /\ \A i \in 1..Len(g.lens) : g.lens[i] = g.lens[1]
  /\ g.xc = Len(g.lens)
  /\ g.yc = g.lens[1]

\* a grid whose rows differ in length, under a complete header
RaggedGrid(g) ==
  /\ g.family = "grid"
  /\ \E i \in 1..Len(g.lens) : g.lens[i] # g.lens[1]

\* the fills that write only values within [-10, 10]
InRangeFills == {"level", "boundary"}

\* the required keys (by index in required_params) with a parameter line
KeysWritten(g) ==
  IF g.family = "edit" /\ g.edit = "drop" THEN (1..6) \ g.drop ELSE 1..6

\* the value texts that denote an integer, and those that denote a float
IntTexts == {<<"3">>, <<"2", " ">>, <<"+", "2">>}

FloatTexts == IntTexts \cup {<<"2", ".", "5">>, <<"n", "a", "n">>,
                             <<"-", "i", "n", "f">>}

\* what an accepted value text denotes, as the field of that key holds it
Denoted(k, v) ==
  LET f == CASE v = <<"3">> -> <<"fin", 3, 0>>
             [] v = <<"2", " ">> -> <<"fin", 2, 0>>
             [] v = <<"+", "2">> -> <<"fin", 2, 0>>
             [] v = <<"2", ".", "5">> -> <<"fin", 25, 1>>
             [] v = <<"n", "a", "n">> -> <<"nan", 0, 0>>
             [] v = <<"-", "i", "n", "f">> -> <<"inf", -1, 0>>
  IN IF k <= 2 THEN f[2] ELSE f

\* whether the value text converts to the type of key k
Converts(k, v) == IF k <= 2 THEN v \in IntTexts ELSE v \in FloatTexts

\* what the unedited header of the example file declares for key k
Declared(k) ==
  IF k = 1 THEN Len(ExampleLens)
  ELSE IF k = 2 THEN ExampleLens[1]
  ELSE BoundValues[k - 2]

\* the field of a MeshData that key k sets
Field(m, k) ==
  CASE k = 1 -> m.x_count [] k = 2 -> m.y_count [] k = 3 -> m.min_x
    [] k = 4 -> m.max_x [] k = 5 -> m.min_y [] k = 6 -> m.max_y

\* the rows the numeric-row lines of the file hold, in line order
RECURSIVE StrayRows(_)
StrayRows(ls) ==
  IF ls = <<>> THEN <<>> ELSE StrayTable[Head(ls)][2] \o StrayRows(Tail(ls))

RowsWritten(g) ==
  CASE g.family = "grid" -> GridValues(g.lens, g.fill)
    [] g.family = "edit" -> GridValues(g.lens, "level")
    [] g.family = "stray" -> StrayRows(g.lines)

\* value names by kind
ExceedNames == {"over", "minus_over"}

NonFiniteNames == {"nan", "pinf", "ninf"}

\* the declared counts are the shape of the given matrix
ShapeDeclared(g) == g.family = "given" /\ g.xc = g.n /\ g.yc = g.m

-----------------------------------------------------------------------------
(* Claims.                                                                 *)

\* C1: a well-formed file of N >= 1 numeric-row lines of M >= 1 values each,
\* declaring x_count = N, y_count = M and the four bounds, parses to a
\* MeshData whose matrix has N rows and M columns, and that MeshData
\* validates to true when every value written lies within [-10, 10].
C1_WellFormedParsesAndValidates ==
  WellFormedGrid(gen) =>
    /\ arg = "content" =>
         /\ result.kind = "MeshData"
         /\ result.matrix.shape = <<Len(gen.lens), gen.lens[1]>>
         /\ Len(result.matrix.data) = Len(gen.lens)
         /\ \A i \in 1..Len(gen.lens) :
              Len(result.matrix.data[i]) = gen.lens[1]
    /\ (mesh # NoMesh /\ gen.fill \in InRangeFills) => valid = "True"

C1_Witness ==
  /\ WellFormedGrid(gen)
  /\ gen.lens = <<2, 2>>
  /\ gen.fill = "boundary"
  /\ arg = "content"
  /\ result.kind = "MeshData"
  /\ mesh = result
  /\ valid = "True"

\* C2: when at least one of the six required keys has no parameter line, the
\* call returns none, whatever rows and other parameter lines the file holds.
C2_MissingKeyGivesNone ==
  (arg = "content" /\ KeysWritten(gen) # 1..6) => result = None

C2_Witness ==
  /\ arg = "content"
  /\ gen.family = "edit"
  /\ gen.edit = "drop"
  /\ gen.drop = {6}
  /\ gen.lens = ExampleLens
  /\ result = None

\* C3: every call ends with a MeshData or none; a parameter value that does
\* not convert to the type of its key gives none, and no exception leaves
\* the call.
C3_NoFaultEscapes ==
  /\ result.kind \in {"NotCalled", "MeshData", "None"}
  /\ (/\ arg = "content"
      /\ gen.family = "edit"
      /\ gen.edit \in {"replace", "after"}
      /\ ~Converts(gen.key, gen.value)) => result = None

C3_Witness ==
  /\ arg = "content"
  /\ gen.family = "edit"
  /\ gen.edit = "replace"
  /\ gen.key = 3
  /\ gen.value = <<"a", "b", "c">>
  /\ result = None

\* C4: for a MeshData whose shape is the declared one and whose values are all
\* finite, validate_mesh_data returns false exactly when some value exceeds
\* 10 in magnitude: 10.0 and -10.0 pass, 10.0001 and -10.0001 do not.
C4_RangeBoundaryInclusive ==
  (/\ valid # "unset"
   /\ ShapeDeclared(gen)
   /\ Names(gen) \cap NonFiniteNames = {})
    => (valid = "False" <=> Names(gen) \cap ExceedNames # {})

C4_Witness ==
  /\ ShapeDeclared(gen)
  /\ Names(gen) = {"small", "ten", "minus_ten"}
  /\ valid = "True"

\* C5: a MeshData holding a nan, a positive or a negative infinity anywhere
\* validates to false, whatever the declared counts and the other values.
C5_NonFiniteIsInvalid ==
  (valid # "unset" /\ Names(gen) \cap NonFiniteNames # {}) => valid = "False"

C5_Witness ==
  /\ ShapeDeclared(gen)
  /\ Names(gen) = {"small", "nan"}
  /\ valid = "False"

\* C6: a MeshData whose row count differs from x_count or whose column count
\* differs from y_count validates to false, also when every value is finite
\* and within [-10, 10].
C6_ShapeMismatchIsInvalid ==
  (/\ valid # "unset"
   /\ gen.family = "given"
   /\ (gen.xc # gen.n \/ gen.yc # gen.m)) => valid = "False"

C6_Witness ==
  /\ gen.family = "given"
  /\ gen.xc = gen.n
  /\ gen.yc # gen.m
  /\ Names(gen) \subseteq {"small", "ten", "minus_ten"}
  /\ valid = "False"

C9_LastParameterLineWins ==
  (arg = "content" /\ gen.family = "edit") =>
    /\ gen.edit = "after" =>
         IF Converts(gen.key, gen.value)
         THEN /\ result.kind = "MeshData"
              /\ Field(result, gen.key) = Denoted(gen.key, gen.value)
         ELSE result = None
    /\ gen.edit = "before" =>
         /\ result.kind = "MeshData"
         /\ Field(result, gen.key) = Declared(gen.key)

C9_Witness ==
  /\ arg = "content"
  /\ gen.family = "edit"
  /\ gen.edit = "after"
  /\ gen.key = 1
  /\ gen.value = <<"3">>
  /\ result.kind = "MeshData"
  /\ result.x_count = 3

\* C10: a returned MeshData holds one row per line matching the numeric-row
\* pattern, in line order, each row with that line's values left to right;
\* the other lines add no row and change none.
C10_RowsInLineOrder ==
  (arg = "content" /\ result.kind = "MeshData") =>
    result.matrix.data = RowsWritten(gen)

C10_Witness ==
  /\ arg = "content"
  /\ gen.family = "stray"
  /\ gen.lines = <<5, 4>>
  /\ result.kind = "MeshData"
  /\ Len(result.matrix.data) = 2

====
